---- MODULE Spec2Model ----
(***************************************************************************)
(* Cap Table Tie-Out Analysis (src/main.py): the Streamlit script main()   *)
(* and the DeterministicCapTableAnalyzer it drives.                        *)
(*                                                                         *)
(* Python values are tagged records, so that None, int and str stay        *)
(* distinct: None_ , IntV(n), StrV(s).  A str is the sequence of its words    *)
(* (tokens); the empty str is StrV(<<>>); `a in b` is contiguous            *)
(* sub-sequence.  Money is kept in cents.                                  *)
(***************************************************************************)
EXTENDS Integers, Sequences, FiniteSets, TLC

VARIABLES
    \* ---- the Streamlit session driven by main() ----
    secret_configured,  \* st.secrets has ANTHROPIC_API_KEY
    session_analyzer,   \* 'analyzer' in st.session_state
    constructions,      \* how often DeterministicCapTableAnalyzer(...) ran
    board_files,        \* the board-document uploader's files, upload order
    cap_table_file,     \* the securities-ledger uploader's file, or NoFile
    show_doc_preview,   \* checkbox "Show document preview"
    show_cap_preview,   \* checkbox "Show cap table preview"
    out,                \* what the latest rerun of main() did and rendered
    \* ---- direct calls of the analyzer's methods ----
    call_entries,       \* cap_table_entries of the call
    call_grants,        \* board_grants of the call
    last_call,          \* whether the call was made, and its result
    earlier_call,       \* the same of the call before it
    llm_docs,           \* board_docs handed to analyze_with_llm
    llm_cap_text,       \* cap_table_text handed to analyze_with_llm
    llm_calls,          \* calls of analyze_with_llm so far
    api_requests,       \* client.messages.create invocations so far
    llm_out,            \* what the latest analyze_with_llm call returned
    excel_file,         \* the file handed to excel_to_structured_data
    excel_out           \* whether it was called, and what it returned

vars == << secret_configured, session_analyzer, constructions, board_files,
           cap_table_file, show_doc_preview, show_cap_preview, out,
           call_entries, call_grants, last_call, earlier_call,
           llm_docs, llm_cap_text, llm_calls, api_requests, llm_out,
           excel_file, excel_out >>

sessionVars == << secret_configured, session_analyzer, constructions,
                  board_files, cap_table_file, show_doc_preview,
                  show_cap_preview, out >>
callVars == << call_entries, call_grants, last_call, earlier_call >>
llmVars == << llm_docs, llm_cap_text, llm_calls, api_requests, llm_out >>
excelVars == << excel_file, excel_out >>

-----------------------------------------------------------------------------
(* Python values *)

None_ == [t |-> "None"]
IntV(n) == [t |-> "int", n |-> n]
StrV(s) == [t |-> "str", s |-> s]
EmptyStr == StrV(<<>>)

IsNone(v) == v.t = "None"
IsInt(v) == v.t = "int"
FloatV(c) == [t |-> "float", c |-> c]
NaN == [t |-> "NaN"]
IsNaN(v) == v.t = "NaN"
IsStr(v) == v.t = "str"
IsFloat(v) == v.t = "float"

\* Python truthiness: None, 0 and '' are false.
Truthy(v) ==
    CASE IsNone(v) -> FALSE
      [] IsNaN(v) -> TRUE
      [] IsInt(v) -> v.n # 0
      [] IsStr(v) -> v.s # <<>>
      [] IsFloat(v) -> v.c # 0

Abs(x) == IF x < 0 THEN -x ELSE x

\* The cap table's column names, as strs.
K_SecurityID == <<"Security", "ID">>
K_StakeholderName == <<"Stakeholder", "Name">>
K_QuantityIssued == <<"Quantity", "Issued">>
K_CostBasis == <<"Cost", "Basis">>
K_BoardApprovalDate == <<"Board", "Approval", "Date">>
K_VestingSchedule == <<"Vesting", "Schedule">>

\* dict.get(key, default)
Get(d, key, default) == IF key \in DOMAIN d THEN d[key] ELSE default

\* `a in b` for two strs: a occurs in b as a contiguous run of words.
IsSubstring(a, b) ==
    \E i \in 0..(Len(b) - Len(a)) :
        \A j \in 1..Len(a) : b[i + j] = a[j]

\* str.lower() on one word, for the words the model uses.
LowerWord(w) ==
    CASE w = "Monthly" -> "monthly"
      [] w = "Annual" -> "annual"
      [] OTHER -> w

Lower(s) == [i \in 1..Len(s) |-> LowerWord(s[i])]

\* str(n) for the integers the model uses, as one word.
IntWord(n) ==
    CASE n = 0 -> "0"
      [] n = 100 -> "100"
      [] n = 101 -> "101"
      [] OTHER -> "<int>"

\* str(value)
StrOf(v) ==
    CASE IsStr(v) -> v.s
      [] IsNone(v) -> <<"None">>
      [] IsNaN(v) -> <<"nan">>
      [] IsInt(v) -> <<IntWord(v.n)>>
      [] IsFloat(v) -> <<"<float>">>

-----------------------------------------------------------------------------
(* DeterministicCapTableAnalyzer.run_deterministic_analysis *)

\* int(float(word)) for the numeric words the model uses; -1: ValueError.
ParseNumber(s) ==
    CASE s = <<"0">> -> 0
      [] s = <<"100">> -> 100
      [] s = <<"101">> -> 101
      [] OTHER -> -1

\* safe_int: NaN/None and unparsable values give 0, floats are truncated.
safe_int(value) ==
    CASE IsNone(value) \/ IsNaN(value) -> 0
      [] IsInt(value) -> value.n
      [] IsFloat(value) -> value.c \div 100
      [] IsStr(value) -> IF ParseNumber(value.s) < 0 THEN 0 ELSE ParseNumber(value.s)

\* safe_float, in cents.
safe_float(value) ==
    CASE IsNone(value) \/ IsNaN(value) -> 0
      [] IsInt(value) -> value.n * 100
      [] IsFloat(value) -> value.c
      [] IsStr(value) -> IF ParseNumber(value.s) < 0 THEN 0 ELSE ParseNumber(value.s) * 100

\* board_lookup is a dict in insertion order: a sequence of
\* [key, grants] items with distinct keys.
LookupIndex(board_lookup, stockholder) ==
    IF \E i \in 1..Len(board_lookup) : board_lookup[i].key = stockholder
    THEN CHOOSE i \in 1..Len(board_lookup) : board_lookup[i].key = stockholder
    ELSE 0

InLookup(board_lookup, stockholder) == LookupIndex(board_lookup, stockholder) # 0

LookupGrants(board_lookup, stockholder) ==
    board_lookup[LookupIndex(board_lookup, stockholder)].grants

LookupAppend(board_lookup, stockholder, grant) ==
    IF InLookup(board_lookup, stockholder)
    THEN [i \in 1..Len(board_lookup) |->
            IF board_lookup[i].key = stockholder
            THEN [board_lookup[i] EXCEPT !.grants = Append(@, grant)]
            ELSE board_lookup[i]]
    ELSE Append(board_lookup, [key |-> stockholder, grants |-> <<grant>>])

\* Mutant: only None is kept out of board_lookup, '' is admitted.
HasStockholder_NotNone(grant) == ~IsNone(Get(grant, "stockholder", None_))

\* Line 216: if stockholder -- the test that admits a grant to board_lookup.
HasStockholder(grant) == Truthy(Get(grant, "stockholder", None_))

\* Lines 211-219: split board_grants into repurchases and board_lookup.
RECURSIVE SplitGrants(_, _, _)
SplitGrants(board_grants, i, acc) ==
    IF i > Len(board_grants) THEN acc
    ELSE LET grant == board_grants[i] IN
         IF grant["type"] = "Repurchase"
         THEN SplitGrants(board_grants, i + 1,
                 [acc EXCEPT !.repurchases = Append(@, grant)])
         ELSE IF HasStockholder(grant)
         THEN SplitGrants(board_grants, i + 1,
                 [acc EXCEPT !.board_lookup =
                     LookupAppend(@, grant["stockholder"], grant)])
         ELSE SplitGrants(board_grants, i + 1, acc)

ShareMatchTolerance == 1
ShareTolerance == 1
PriceToleranceCents == 1

\* Mutant: only an equal share count matches.
SharesMatch_ExactOnly(grant, shares) ==
    IF Get(grant, "shares", None_) = IntV(shares) THEN "match" ELSE "no"
\* Line 251: grant.get('shares') == shares or abs(grant.get('shares', 0) - shares) <= 1.
\* "raise" when the subtraction meets None (TypeError).
SharesMatch(grant, shares) ==
    IF Get(grant, "shares", None_) = IntV(shares) THEN "match"
    ELSE LET v == Get(grant, "shares", IntV(0)) IN
         IF ~IsInt(v) THEN "raise"
         ELSE IF Abs(v.n - shares) <= ShareMatchTolerance THEN "match"
         ELSE "no"

\* Lines 249-256: the first matching grant, else the first grant.
RECURSIVE FindMatchingGrant(_, _, _)
FindMatchingGrant(grants, shares, j) ==
    IF j > Len(grants)
    THEN [raised |-> FALSE, matching_grant |-> grants[1]]
    ELSE LET m == SharesMatch(grants[j], shares) IN
         IF m = "raise" THEN [raised |-> TRUE, matching_grant |-> None_]
         ELSE IF m = "match" THEN [raised |-> FALSE, matching_grant |-> grants[j]]
         ELSE FindMatchingGrant(grants, shares, j + 1)

\* Mutant: numbers count from 0.
Discrepancy_ZeroBased(discrepancies, stockholder, security_id, issue, cap_table_value, legal_value, description, source) ==
    [number |-> Len(discrepancies),
     severity |-> "HIGH",
     stockholder |-> stockholder,
     security_id |-> security_id,
     issue |-> issue,
     cap_table_value |-> cap_table_value,
     legal_value |-> legal_value,
     description |-> description,
     source |-> source]

\* Lines 235-246 and the other appends: one discrepancy record.
Discrepancy(discrepancies, stockholder, security_id, issue, cap_table_value, legal_value, description, source) ==
    [number |-> Len(discrepancies) + 1,
     severity |-> "HIGH",
     stockholder |-> stockholder,
     security_id |-> security_id,
     issue |-> issue,
     cap_table_value |-> cap_table_value,
     legal_value |-> legal_value,
     description |-> description,
     source |-> source]

\* Mutant: a difference of exactly 1 is reported too.
ShareQuantityMismatch_OffByOne(board_shares, shares) ==
    Truthy(board_shares) /\ Abs(shares - board_shares.n) >= ShareTolerance

\* Line 260
ShareQuantityMismatch(board_shares, shares) ==
    Truthy(board_shares) /\ Abs(shares - board_shares.n) > ShareTolerance

\* Line 275 in IEEE-754 doubles, for operands whose exact difference is
\* exactly one cent: the rounded difference lies just above or just below
\* the double nearest 0.01.  <<cost_basis, shares, board_price>> in cents:
\*   102.01 / 101 = 1.01,  1.01 - 1.0 = 0.010000000000000009 > 0.01
\*   101.00 / 100 = 1.01,  1.01 - 1.0 = 0.010000000000000009 > 0.01
\*     2.00 / 100 = 0.02,  0.02 - 0.01 = 0.01, not > 0.01
DoubleDifferenceAboveCent(cost_basis, shares, board_price) ==
    CASE <<cost_basis, shares, board_price>> = <<10201, 101, 100>> -> TRUE
      [] <<cost_basis, shares, board_price>> = <<10100, 100, 100>> -> TRUE
      [] <<cost_basis, shares, board_price>> = <<200, 100, 1>> -> FALSE

\* Lines 231 and 275: abs(price_per_share - board_price) > 0.01 with
\* price_per_share = cost_basis / shares if shares > 0 else 0.  Amounts are
\* in cents and cross-multiplied; away from a difference of exactly one cent
\* the doubles' rounding error (about 1e-16) cannot change the comparison.
PriceMismatch(board_price, cost_basis, shares) ==
    /\ Truthy(board_price)
    /\ IF shares > 0
       THEN IF Abs(cost_basis - board_price.c * shares) = PriceToleranceCents * shares
            THEN DoubleDifferenceAboveCent(cost_basis, shares, board_price.c)
            ELSE Abs(cost_basis - board_price.c * shares) > PriceToleranceCents * shares
       ELSE Abs(board_price.c) > PriceToleranceCents

\* Mutant: the dates are compared for equality.
DateMismatch_Equality(board_date, board_approval_date) ==
    Truthy(board_date) /\ board_date.s # board_approval_date

\* Line 290
DateMismatch(board_date, board_approval_date) ==
    Truthy(board_date) /\ ~IsSubstring(board_date.s, board_approval_date)

\* Mutant: the entry's text is searched as written, not lowercased.
VestingMismatch_CaseSensitive(board_vesting, vesting_schedule) ==
    /\ Truthy(board_vesting)
    /\ ~IsSubstring(board_vesting.s, vesting_schedule)
    /\ \/ /\ IsSubstring(<<"monthly">>, Lower(board_vesting.s))
          /\ ~IsSubstring(<<"monthly">>, vesting_schedule)
       \/ /\ IsSubstring(<<"annual">>, Lower(board_vesting.s))
          /\ ~IsSubstring(<<"annual">>, vesting_schedule)

\* Lines 305-307
VestingMismatch(board_vesting, vesting_schedule) ==
    /\ Truthy(board_vesting)
    /\ ~IsSubstring(board_vesting.s, vesting_schedule)
    /\ \/ /\ IsSubstring(<<"monthly">>, Lower(board_vesting.s))
          /\ ~IsSubstring(<<"monthly">>, Lower(vesting_schedule))
       \/ /\ IsSubstring(<<"annual">>, Lower(board_vesting.s))
          /\ ~IsSubstring(<<"annual">>, Lower(vesting_schedule))

AppendIf(cond, discrepancies, stockholder, security_id, issue, cap_table_value, legal_value, description, source) ==
    IF cond
    THEN Append(discrepancies,
                Discrepancy(discrepancies, stockholder, security_id, issue,
                            cap_table_value, legal_value, description, source))
    ELSE discrepancies

\* Lines 258-271: check 2.
CheckShares(matching_grant, security_id, stockholder, shares, discrepancies) ==
    AppendIf(ShareQuantityMismatch(Get(matching_grant, "shares", IntV(0)), shares),
             discrepancies, stockholder, security_id,
             "Incorrect Share Quantity",
             [shares_text |-> shares],
             [shares_text |-> Get(matching_grant, "shares", IntV(0)).n],
             [cap_shares |-> shares,
              board_shares |-> Get(matching_grant, "shares", IntV(0)).n],
             Get(matching_grant, "filename", "Unknown"))

\* Lines 273-286: check 3.
CheckPrice(matching_grant, security_id, stockholder, shares, cost_basis, discrepancies) ==
    AppendIf(PriceMismatch(Get(matching_grant, "price_per_share", IntV(0)),
                           cost_basis, shares),
             discrepancies, stockholder, security_id,
             "Incorrect Price Per Share",
             [cost_cents |-> cost_basis, per_shares |-> shares],
             [price_cents |-> Get(matching_grant, "price_per_share", IntV(0)).c],
             [cap_cost_cents |-> cost_basis, cap_per_shares |-> shares,
              board_price_cents |-> Get(matching_grant, "price_per_share", IntV(0)).c],
             Get(matching_grant, "filename", "Unknown"))

\* Lines 288-301: check 4.
CheckDate(matching_grant, security_id, stockholder, board_approval_date, discrepancies) ==
    AppendIf(DateMismatch(Get(matching_grant, "date", EmptyStr), board_approval_date),
             discrepancies, stockholder, security_id,
             "Incorrect Board Approval Date",
             [str |-> board_approval_date],
             [str |-> Get(matching_grant, "date", EmptyStr).s],
             [text |-> "Board approval date in cap table does not match legal documents"],
             Get(matching_grant, "filename", "Unknown"))

\* Lines 303-318: check 5.
CheckVesting(matching_grant, security_id, stockholder, vesting_schedule, discrepancies) ==
    AppendIf(VestingMismatch(Get(matching_grant, "vesting_schedule", EmptyStr),
                             vesting_schedule),
             discrepancies, stockholder, security_id,
             "Vesting Schedule Mismatch",
             [str |-> vesting_schedule],
             [str |-> Get(matching_grant, "vesting_schedule", EmptyStr).s],
             [text |-> "Vesting schedule format differs between cap table and board documents"],
             Get(matching_grant, "filename", "Unknown"))

\* Mutant: the price check runs before the share check.
CheckAgainstGrant_PriceFirst(found, security_id, stockholder, shares, cost_basis, board_approval_date, vesting_schedule, discrepancies) ==
    IF found.raised THEN [raised |-> TRUE, discrepancies |-> discrepancies]
    ELSE [raised |-> FALSE,
          discrepancies |->
            CheckVesting(found.matching_grant, security_id, stockholder,
                vesting_schedule,
                CheckDate(found.matching_grant, security_id, stockholder,
                    board_approval_date,
                    CheckShares(found.matching_grant, security_id,
                        stockholder, shares,
                        CheckPrice(found.matching_grant, security_id,
                            stockholder, shares, cost_basis, discrepancies))))]

\* Lines 255-318: the four checks against the grant found, in order; a
\* TypeError in the search leaves the loop.
CheckAgainstGrant(found, security_id, stockholder, shares, cost_basis, board_approval_date, vesting_schedule, discrepancies) ==
    IF found.raised THEN [raised |-> TRUE, discrepancies |-> discrepancies]
    ELSE [raised |-> FALSE,
          discrepancies |->
            CheckVesting(found.matching_grant, security_id, stockholder,
                vesting_schedule,
                CheckDate(found.matching_grant, security_id, stockholder,
                    board_approval_date,
                    CheckPrice(found.matching_grant, security_id, stockholder,
                        shares, cost_basis,
                        CheckShares(found.matching_grant, security_id,
                            stockholder, shares, discrepancies))))]

\* Mutant: the phantom entry is appended twice.
CheckEntryFields_PhantomTwice(security_id, stockholder, shares, cost_basis, board_approval_date, vesting_schedule, board_lookup, discrepancies) ==
    IF ~InLookup(board_lookup, stockholder)
    THEN [raised |-> FALSE,
          discrepancies |->
            AppendIf(TRUE,
                     AppendIf(TRUE, discrepancies, stockholder, security_id,
                              "Phantom Equity Entry",
                              [shares_text |-> shares],
                              [text |-> "No supporting documentation found"],
                              [phantom_id |-> security_id, phantom_for |-> stockholder],
                              "None found"),
                     stockholder, security_id,
                     "Phantom Equity Entry",
                     [shares_text |-> shares],
                     [text |-> "No supporting documentation found"],
                     [phantom_id |-> security_id, phantom_for |-> stockholder],
                     "None found")]
    ELSE CheckAgainstGrant(
            FindMatchingGrant(LookupGrants(board_lookup, stockholder), shares, 1),
            security_id, stockholder, shares, cost_basis, board_approval_date,
            vesting_schedule, discrepancies)

\* Lines 233-256: check 1 (phantom equity), else the search for the grant.
CheckEntryFields(security_id, stockholder, shares, cost_basis, board_approval_date, vesting_schedule, board_lookup, discrepancies) ==
    IF ~InLookup(board_lookup, stockholder)
    THEN [raised |-> FALSE,
          discrepancies |->
            AppendIf(TRUE, discrepancies, stockholder, security_id,
                     "Phantom Equity Entry",
                     [shares_text |-> shares],
                     [text |-> "No supporting documentation found"],
                     [phantom_id |-> security_id, phantom_for |-> stockholder],
                     "None found")]
    ELSE CheckAgainstGrant(
            FindMatchingGrant(LookupGrants(board_lookup, stockholder), shares, 1),
            security_id, stockholder, shares, cost_basis, board_approval_date,
            vesting_schedule, discrepancies)

\* Lines 222-318: the body of the loop over cap_table_entries.
CheckEntry(entry, board_lookup, discrepancies) ==
    CheckEntryFields(Get(entry, K_SecurityID, EmptyStr),
                     Get(entry, K_StakeholderName, EmptyStr),
                     safe_int(Get(entry, K_QuantityIssued, IntV(0))),
                     safe_float(Get(entry, K_CostBasis, IntV(0))),
                     StrOf(Get(entry, K_BoardApprovalDate, EmptyStr)),
                     StrOf(Get(entry, K_VestingSchedule, EmptyStr)),
                     board_lookup, discrepancies)

\* Line 222: for entry in cap_table_entries.  processed counts the entries
\* whose loop body ran to its end.
RECURSIVE CheckEntries(_, _, _, _)
RECURSIVE CheckEntriesFrom(_, _, _, _, _)
CheckEntriesFrom(r, cap_table_entries, i, board_lookup, discrepancies) ==
    IF r.raised
    THEN [raised |-> TRUE, discrepancies |-> discrepancies, processed |-> i - 1]
    ELSE CheckEntries(cap_table_entries, i + 1, board_lookup, r.discrepancies)

CheckEntries(cap_table_entries, i, board_lookup, discrepancies) ==
    IF i > Len(cap_table_entries)
    THEN [raised |-> FALSE, discrepancies |-> discrepancies, processed |-> i - 1]
    ELSE CheckEntriesFrom(
            CheckEntry(cap_table_entries[i], board_lookup, discrepancies),
            cap_table_entries, i, board_lookup, discrepancies)

\* Line 325
RepurchaseReported(repurchase) ==
    /\ Truthy(Get(repurchase, "stockholder", None_))
    /\ Truthy(Get(repurchase, "shares_repurchased", IntV(0)))

\* Lines 321-336: for repurchase in repurchases
RECURSIVE CheckRepurchases(_, _, _)
CheckRepurchases(repurchases, i, discrepancies) ==
    IF i > Len(repurchases) THEN discrepancies
    ELSE LET repurchase == repurchases[i]
             stockholder == Get(repurchase, "stockholder", None_)
             shares_repurchased == Get(repurchase, "shares_repurchased", IntV(0))
         IN CheckRepurchases(repurchases, i + 1,
                AppendIf(RepurchaseReported(repurchase),
                         discrepancies, stockholder, StrV(<<"Multiple">>),
                         "Missing Repurchase Transaction",
                         [text |-> "No repurchase reflected"],
                         [repurchased_text |-> shares_repurchased],
                         [repurchased |-> shares_repurchased, from |-> stockholder],
                         Get(repurchase, "filename", "Unknown")))

\* A list kept from call to call, as a mutable default argument would be.
NewDiscrepancies_Kept == last_call.result.discrepancies
\* Line 205: discrepancies = []
NewDiscrepancies == <<>>

\* Lines 320-338: the repurchase check and the return.
FinishAnalysis(checked, repurchases) ==
    IF checked.raised THEN checked
    ELSE [checked EXCEPT !.discrepancies = CheckRepurchases(repurchases, 1, @)]

\* Lines 221-338, once board_lookup and repurchases are built.
AnalyseSplit(cap_table_entries, split) ==
    FinishAnalysis(CheckEntries(cap_table_entries, 1, split.board_lookup,
                                NewDiscrepancies),
                   split.repurchases)

\* The outcome of a call.  raised: a TypeError left the call and the caller
\* receives no list; discrepancies is then the local list as the exception
\* found it, and processed the number of entries handled before it.
run_deterministic_analysis(cap_table_entries, board_grants) ==
    AnalyseSplit(cap_table_entries,
                 SplitGrants(board_grants, 1,
                             [board_lookup |-> <<>>, repurchases |-> <<>>]))

-----------------------------------------------------------------------------
(* Board documents.  A document's text is kept as what the extractors'    *)
(* searches find in it: the keywords of extract_board_grants, the first    *)
(* match of each regular expression, the first common name present.        *)

Text(kw, date_matches, common_name, pattern_names, share_matches, price_matches, vesting_start, vesting_marks, repurchase_matches) ==
    [kw |-> kw, date_matches |-> date_matches, common_name |-> common_name,
     pattern_names |-> pattern_names, share_matches |-> share_matches,
     price_matches |-> price_matches, vesting_start |-> vesting_start,
     vesting_marks |-> vesting_marks, repurchase_matches |-> repurchase_matches]

\* The empty string: nothing is found in it.
EmptyText == Text({}, <<>>, None_, <<>>, <<>>, <<>>, None_, {}, <<>>)

\* The first pattern, of the first n, that matches; None when none does.
RECURSIVE FirstMatch(_, _, _)
FirstMatch(matches, i, n) ==
    IF i > n \/ i > Len(matches) THEN None_
    ELSE IF ~IsNone(matches[i]) THEN matches[i]
    ELSE FirstMatch(matches, i + 1, n)

\* The first matched number that lies in the accepted range; -1 when none.
RECURSIVE FirstInRange(_, _, _, _)
FirstInRange(numbers, i, lo, hi) ==
    IF i > Len(numbers) THEN -1
    ELSE IF lo <= numbers[i] /\ numbers[i] <= hi THEN numbers[i]
    ELSE FirstInRange(numbers, i + 1, lo, hi)

RsaDatePatterns == 4
RepurchaseDatePatterns == 2
MinShares == 100
MaxShares == 1000000
MinPriceCents == 1
MaxPriceCents == 100000
MinRepurchased == 1
MaxRepurchased == 100000

FalsePositives ==
    { StrV(<<"Date">>), StrV(<<"DIRECTORS">>), StrV(<<"Name">>),
      StrV(<<"Board">>), StrV(<<"Company">>) }

\* Lines 756-764: the first pattern name that is not a false positive.
RECURSIVE FirstAcceptedName(_, _)
FirstAcceptedName(names, i) ==
    IF i > Len(names) THEN None_
    ELSE IF names[i] \notin FalsePositives THEN names[i]
    ELSE FirstAcceptedName(names, i + 1)

\* Lines 95-135, 741-776, 1352-1427
extract_rsa_grant(content, filename) ==
    LET shares == FirstInRange(content.share_matches, 1, MinShares, MaxShares)
        price == FirstInRange(content.price_matches, 1, MinPriceCents, MaxPriceCents)
    IN
    [type |-> "RSA Grant",
     filename |-> filename,
     stockholder |->
        IF ~IsNone(content.common_name) THEN content.common_name
        ELSE FirstAcceptedName(content.pattern_names, 1),
     shares |-> IF shares < 0 THEN None_ ELSE IntV(shares),
     price_per_share |-> IF price < 0 THEN None_ ELSE FloatV(price),
     date |-> FirstMatch(content.date_matches, 1, RsaDatePatterns),
     vesting_start |-> content.vesting_start,
     vesting_schedule |->
        IF "1/48" \in content.vesting_marks
        THEN IF "month" \in content.vesting_marks THEN StrV(<<"1/48th", "monthly">>)
             ELSE None_
        ELSE IF "25%" \in content.vesting_marks
        THEN IF "annual" \in content.vesting_marks \/ "year" \in content.vesting_marks
             THEN StrV(<<"25%", "annual", "ly">>)
             ELSE None_
        ELSE None_]

\* Lines 137-196
extract_repurchase_info(content, filename) ==
    LET shares == FirstInRange(content.repurchase_matches, 1,
                               MinRepurchased, MaxRepurchased)
    IN
    [type |-> "Repurchase",
     filename |-> filename,
     stockholder |-> content.common_name,
     shares_repurchased |-> IF shares < 0 THEN None_ ELSE IntV(shares),
     date |-> FirstMatch(content.date_matches, 1, RepurchaseDatePatterns)]

\* Lines 198-201
extract_option_grant(content, filename) == extract_rsa_grant(content, filename)

\* A dict in insertion order: a sequence of [key, value] items with distinct
\* keys.  d[key] = value keeps the place of a key already present.
DictSet(d, key, value) ==
    IF \E i \in 1..Len(d) : d[i].key = key
    THEN [i \in 1..Len(d) |-> IF d[i].key = key THEN [key |-> key, value |-> value]
                                ELSE d[i]]
    ELSE Append(d, [key |-> key, value |-> value])

\* Mutant: every document yields a grant, whatever its text.
GrantsOfDocument_Always(filename, content) ==
    <<extract_rsa_grant(content, filename)>>
\* Lines 80-91: the grant one document yields, as a list of 0 or 1 grants.
GrantsOfDocument(filename, content) ==
    IF "repurchase" \in content.kw
    THEN <<extract_repurchase_info(content, filename)>>
    ELSE IF "restricted stock" \in content.kw \/ "rsa" \in content.kw
    THEN <<extract_rsa_grant(content, filename)>>
    ELSE IF "option" \in content.kw
    THEN <<extract_option_grant(content, filename)>>
    ELSE <<>>

\* Lines 72-93: for filename, content in board_docs.items()
RECURSIVE extract_board_grants_from(_, _, _)
extract_board_grants_from(board_docs, i, grants) ==
    IF i > Len(board_docs) THEN grants
    ELSE extract_board_grants_from(board_docs, i + 1,
            grants \o GrantsOfDocument(board_docs[i].key, board_docs[i].value))

extract_board_grants(board_docs) == extract_board_grants_from(board_docs, 1, <<>>)

\* Lines 25-35: the text of a readable document; '' and an error message for
\* one that Document() cannot open.
read_docx_content(file) ==
    IF file.readable
    THEN [raised |-> FALSE, content |-> file.text, error |-> FALSE]
    ELSE [raised |-> FALSE, content |-> EmptyText, error |-> TRUE]

-----------------------------------------------------------------------------
(* The cap table.  A sheet is a sequence of rows of equal length, a row a  *)
(* sequence of cells, an empty cell NaN.                                   *)

RECURSIVE JoinCells(_, _)
\* ' '.join([str(cell) for cell in row if pd.notna(cell)])
JoinCells(row, i) ==
    IF i > Len(row) THEN <<>>
    ELSE IF IsNaN(row[i]) THEN JoinCells(row, i + 1)
    ELSE StrOf(row[i]) \o JoinCells(row, i + 1)

IsHeaderRow(row) ==
    /\ IsSubstring(K_SecurityID, JoinCells(row, 1))
    /\ IsSubstring(K_StakeholderName, JoinCells(row, 1))

\* Mutant: the last header row is taken.
HeaderRowIdx_Last(rows) ==
    IF \E i \in 1..Len(rows) : IsHeaderRow(rows[i])
    THEN CHOOSE i \in 1..Len(rows) :
            IsHeaderRow(rows[i]) /\ \A k \in (i + 1)..Len(rows) : ~IsHeaderRow(rows[k])
    ELSE 0

\* Lines 43-48: the index of the first header row, 0 when there is none.
HeaderRowIdx(rows) ==
    IF \E i \in 1..Len(rows) : IsHeaderRow(rows[i])
    THEN CHOOSE i \in 1..Len(rows) :
            IsHeaderRow(rows[i]) /\ \A k \in 1..(i - 1) : ~IsHeaderRow(rows[k])
    ELSE 0

\* str(cell).strip() is not empty
NotBlank(cell) == \E i \in 1..Len(StrOf(cell)) : StrOf(cell)[i] # " "

\* Line 59
HasSecurityId(row) == ~IsNaN(row[1]) /\ NotBlank(row[1])

\* Lines 60-63: the entry of one data row.  A later column of the same
\* header replaces an earlier one.
RowEntry(headers, row) ==
    LET cols == {j \in 1..Len(headers) : j <= Len(row) /\ ~IsNaN(headers[j])}
        keys == {StrOf(headers[j]) : j \in cols}
        last(key) == CHOOSE j \in cols :
                        /\ StrOf(headers[j]) = key
                        /\ \A k \in cols : StrOf(headers[k]) = key => k <= j
    IN [key \in keys |-> IF IsNaN(row[last(key)]) THEN EmptyStr ELSE row[last(key)]]

RECURSIVE DataEntries(_, _, _)
DataEntries(rows, headers, i) ==
    IF i > Len(rows) THEN <<>>
    ELSE IF HasSecurityId(rows[i])
    THEN <<RowEntry(headers, rows[i])>> \o DataEntries(rows, headers, i + 1)
    ELSE DataEntries(rows, headers, i + 1)

\* Lines 37-70: [] and an error message for a file pandas cannot read.
excel_to_structured_data(file) ==
    IF ~file.readable THEN [entries |-> <<>>, error |-> TRUE]
    ELSE LET header_row_idx == HeaderRowIdx(file.rows) IN
         IF header_row_idx = 0 THEN [entries |-> <<>>, error |-> FALSE]
         ELSE [entries |-> DataEntries(file.rows, file.rows[header_row_idx],
                                       header_row_idx + 1),
               error |-> FALSE]

-----------------------------------------------------------------------------
(* The LLM path.  A text is the sequence of its pieces.                    *)

\* Lines 400-449 and 457-461: the fixed parts of the prompt.
PromptHead == <<"You are a lawyer conducting a standardized capitalization table tie out. [...] BOARD DOCUMENTS:\n">>
PromptTail == <<"\n\nNOW EXECUTE THE 4-STEP ANALYSIS SEQUENCE ABOVE. [...]">>

\* Lines 452-453: one section per document, in the dict's order.
RECURSIVE DocumentSections(_, _)
DocumentSections(board_docs, i) ==
    IF i > Len(board_docs) THEN <<>>
    ELSE <<"\n--- ", board_docs[i].key, " ---\n">> \o board_docs[i].value \o <<"\n">>
         \o DocumentSections(board_docs, i + 1)

\* Lines 397-463
create_analysis_prompt(board_docs, cap_table_text) ==
    PromptHead \o DocumentSections(board_docs, 1)
    \o <<"\nSECURITIES LEDGER / CAP TABLE:\n">> \o cap_table_text \o <<"\n">>
    \o PromptTail

\* What one client.messages.create call does: it raises an exception with a
\* message, or returns a response with a list of content blocks.
ApiRaise(message) == [raises |-> TRUE, message |-> message, content |-> <<>>]
ApiReply(content) == [raises |-> FALSE, message |-> <<>>, content |-> content]

\* Lines 471-482: the request.
Request(prompt) ==
    [model |-> "claude-3-5-sonnet-20241022", max_tokens |-> 4000, temperature |-> 0,
     messages |-> <<[role |-> "user", content |-> prompt]>>]

\* Lines 470-487 after the request was sent: the text of the first content
\* block, or the error string for an exception of the call or of
\* response.content[0].
Answer(request, api) ==
    IF api.raises
    THEN [raised |-> FALSE,
          value |-> <<"Error analyzing documents: ">> \o api.message,
          requests |-> <<request>>]
    ELSE IF api.content = <<>>
    THEN [raised |-> FALSE,
          value |-> <<"Error analyzing documents: ", "list index out of range">>,
          requests |-> <<request>>]
    ELSE [raised |-> FALSE, value |-> api.content[1].text, requests |-> <<request>>]

\* Mutant: a failed request is sent once more.
analyze_with_llm_Retry(board_docs, cap_table_text, api) ==
    LET request == Request(create_analysis_prompt(board_docs, cap_table_text)) IN
    IF api.raises
    THEN [Answer(request, api) EXCEPT !.requests = <<request, request>>]
    ELSE Answer(request, api)
\* Lines 465-487.  api: what the API does with the request.
analyze_with_llm(board_docs, cap_table_text, api) ==
    Answer(Request(create_analysis_prompt(board_docs, cap_table_text)), api)

-----------------------------------------------------------------------------
(* main(): one run of the script *)

Event(ev, file) == [ev |-> ev, file |-> file]
Message(msg, file) == [msg |-> msg, file |-> file]

\* The order of file names under Python's str comparison.
NameRank(name) ==
    CASE name = "a.docx" -> 1
      [] name = "b.docx" -> 2
      [] name = "c.docx" -> 3
      [] OTHER -> 4

\* Line 595: sorted(board_files, key=lambda x: x.name), a stable sort.
RECURSIVE InsertByName(_, _)
InsertByName(sorted, file) ==
    IF sorted = <<>> THEN <<file>>
    ELSE IF NameRank(file.name) < NameRank(Head(sorted).name)
    THEN <<file>> \o sorted
    ELSE <<Head(sorted)>> \o InsertByName(Tail(sorted), file)

RECURSIVE SortedByName(_, _, _)
SortedByName(files, i, sorted) ==
    IF i > Len(files) THEN sorted
    ELSE SortedByName(files, i + 1, InsertByName(sorted, files[i]))

\* Mutant: a handler for ValueError alone.
Catches_OnlyValueError(exc) == exc \in {"ValueError"}
\* Line 710: except Exception
Catches(exc) == exc \in {"TypeError", "IOError", "StreamlitAPIException"}

\* Lines 596-599: read each file in sorted order into board_docs.
RECURSIVE ReadBoardFiles(_, _, _, _)
ReadBoardFiles(sorted_files, i, fault, acc) ==
    IF i > Len(sorted_files) THEN acc
    ELSE IF fault = "read"
    THEN [acc EXCEPT !.exc = "IOError"]
    ELSE LET file == sorted_files[i]
             read == read_docx_content(file)
             events == Append(acc.events, Event("read_docx_content", file.name))
         IN IF read.raised
            THEN [acc EXCEPT !.exc = "IOError", !.events = events]
            ELSE ReadBoardFiles(sorted_files, i + 1, fault,
                    [acc EXCEPT
                        !.events = events,
                        !.errors = IF read.error
                                   THEN @ \cup {Message("Error reading", file.name)}
                                   ELSE @,
                        !.board_docs = DictSet(@, file.name, read.content)])

\* Lines 688-700: one row of the report per discrepancy.
ReportRows(discrepancies) ==
    [i \in 1..Len(discrepancies) |->
        [discrepancy_no |-> discrepancies[i].number,
         severity |-> discrepancies[i].severity,
         stockholder |-> discrepancies[i].stockholder,
         security_id |-> discrepancies[i].security_id,
         issue |-> discrepancies[i].issue,
         cap_table_shows |-> discrepancies[i].cap_table_value,
         legal_documents_show |-> discrepancies[i].legal_value,
         description |-> discrepancies[i].description,
         source_document |-> discrepancies[i].source]]

NoRun ==
    [exc |-> "", events |-> <<>>, errors |-> {}, board_docs |-> <<>>,
     cap_table_entries |-> <<>>, board_grants |-> <<>>, analysed |-> FALSE,
     discrepancies |-> <<>>, results_shown |-> FALSE, download_button |-> FALSE,
     csv_rows |-> <<>>, no_discrepancies_shown |-> FALSE]

\* Line 609: the comparison step of a run.
CompareStep(cap_table_entries, board_grants) ==
    [events |-> <<Event("run_deterministic_analysis", "")>>,
     result |-> run_deterministic_analysis(cap_table_entries, board_grants)]

\* Mutant: the report is offered whatever the list holds.
RenderStep_AlwaysOffers(r, fault) ==
    IF fault = "render" THEN [r EXCEPT !.exc = "StreamlitAPIException"]
    ELSE [r EXCEPT
            !.results_shown = TRUE,
            !.no_discrepancies_shown = (r.discrepancies = <<>>),
            !.download_button = TRUE,
            !.csv_rows = ReportRows(r.discrepancies)]
\* Lines 611-708: show the results (line 679: the 'No discrepancies found'
\* message for an empty list) and offer the report (lines 685-708).
RenderStep(r, fault) ==
    IF fault = "render" THEN [r EXCEPT !.exc = "StreamlitAPIException"]
    ELSE [r EXCEPT
            !.results_shown = TRUE,
            !.no_discrepancies_shown = (r.discrepancies = <<>>),
            !.download_button = (r.discrepancies # <<>>),
            !.csv_rows = IF r.discrepancies # <<>> THEN ReportRows(r.discrepancies)
                         ELSE <<>>]

\* Line 609, and the exception it may raise.
AfterCompare(r, compared, fault) ==
    IF compared.result.raised
    THEN [r EXCEPT !.events = @ \o compared.events, !.exc = "TypeError"]
    ELSE RenderStep([r EXCEPT !.events = @ \o compared.events,
                              !.analysed = TRUE,
                              !.discrepancies = compared.result.discrepancies],
                    fault)

\* Line 606
AfterExtract(r, board_grants, fault) ==
    AfterCompare([r EXCEPT !.events = Append(@, Event("extract_board_grants", "")),
                           !.board_grants = board_grants],
                 CompareStep(r.cap_table_entries, board_grants), fault)

\* Lines 602-603
AfterParse(r, parsed, cap, fault) ==
    IF fault = "extract"
    THEN [r EXCEPT
            !.events = Append(@, Event("excel_to_structured_data", cap.name)),
            !.errors = IF parsed.error
                       THEN @ \cup {Message("Error parsing Excel", cap.name)} ELSE @,
            !.cap_table_entries = parsed.entries,
            !.exc = "StreamlitAPIException"]
    ELSE AfterExtract(
            [r EXCEPT
                !.events = Append(@, Event("excel_to_structured_data", cap.name)),
                !.errors = IF parsed.error
                           THEN @ \cup {Message("Error parsing Excel", cap.name)} ELSE @,
                !.cap_table_entries = parsed.entries],
            extract_board_grants(r.board_docs), fault)

AfterRead(read, cap, fault) ==
    IF read.exc # "" THEN read
    ELSE AfterParse(read, excel_to_structured_data(cap), cap, fault)

\* Lines 591-708: the body of the try block.  exc names the exception that
\* left it, "" when none did.
TryBody(files, cap, fault) ==
    AfterRead(ReadBoardFiles(SortedByName(files, 1, <<>>), 1, fault, NoRun),
              cap, fault)

\* Lines 539-568: the previews of the first board file and of the cap table.
PreviewEvents(files, cap, doc_preview, cap_preview) ==
    (IF files # <<>> /\ doc_preview
     THEN <<Event("read_docx_content", files[1].name)>> ELSE <<>>)
    \o
    (IF cap.name # "" /\ cap_preview
     THEN <<Event("pd.read_excel", cap.name)>> ELSE <<>>)

PreviewErrors(files, cap, doc_preview, cap_preview) ==
    (IF files # <<>> /\ doc_preview /\ read_docx_content(files[1]).error
     THEN {Message("Error reading", files[1].name)} ELSE {})
    \cup
    (IF cap.name # "" /\ cap_preview /\ ~cap.readable
     THEN {Message("Error previewing cap table", cap.name)} ELSE {})

CountEvents(events, ev) == Cardinality({i \in 1..Len(events) : events[i].ev = ev})

Output(run_analysis, stopped, returned_early, propagated, constructed, run, events, errors, closing) ==
    [ran |-> TRUE, run_analysis |-> run_analysis, stopped |-> stopped,
     returned_early |-> returned_early, propagated |-> propagated,
     constructed |-> constructed, exc |-> run.exc,
     events |-> events, errors |-> errors,
     board_docs |-> run.board_docs, cap_table_entries |-> run.cap_table_entries,
     board_grants |-> run.board_grants, analysed |-> run.analysed,
     discrepancies |-> run.discrepancies, results_shown |-> run.results_shown,
     download_button |-> run.download_button, csv_rows |-> run.csv_rows,
     no_discrepancies_shown |-> run.no_discrepancies_shown,
     info_section |-> closing, footer |-> closing,
     api_requests |-> CountEvents(events, "client.messages.create")]

\* Lines 710-737: the except clause, then the information section and footer.
FinishRun(run, constructed, events, errors) ==
    IF run.exc = ""
    THEN Output(TRUE, FALSE, FALSE, FALSE, constructed, run,
                events \o run.events, errors \cup run.errors, TRUE)
    ELSE IF Catches(run.exc)
    THEN Output(TRUE, FALSE, FALSE, FALSE, constructed, run,
                events \o run.events,
                errors \cup run.errors \cup {Message("Error during analysis", "")},
                TRUE)
    ELSE Output(TRUE, FALSE, FALSE, TRUE, constructed, run,
                events \o run.events, errors \cup run.errors, FALSE)

\* Mutant: the click is not checked for missing uploads.
Page_NoUploadCheck(constructed, files, cap, doc_preview, cap_preview, run_analysis, fault, events, errors) ==
    IF ~run_analysis
    THEN Output(FALSE, FALSE, FALSE, FALSE, constructed, NoRun, events, errors, TRUE)
    ELSE FinishRun(TryBody(files, cap, fault), constructed, events, errors)
\* Lines 502-737, with the analyzer in the session.
Page(constructed, files, cap, doc_preview, cap_preview, run_analysis, fault, events, errors) ==
    IF ~run_analysis
    THEN Output(FALSE, FALSE, FALSE, FALSE, constructed, NoRun, events, errors, TRUE)
    ELSE IF files = <<>> \/ cap.name = ""
    THEN Output(TRUE, FALSE, TRUE, FALSE, constructed, NoRun, events,
                errors \cup {Message("Please upload both board documents and securities ledger", "")},
                FALSE)
    ELSE FinishRun(TryBody(files, cap, fault), constructed, events, errors)

\* Mutant: the analyzer is constructed in every rerun that finds the secret.
main_Reconstructs(analyzer, secret, files, cap, doc_preview, cap_preview, run_analysis, fault) ==
    IF ~secret
    THEN Output(run_analysis, TRUE, FALSE, FALSE, FALSE, NoRun, <<>>,
                {Message("Anthropic API key not found", "")}, FALSE)
    ELSE Page(TRUE, files, cap, doc_preview, cap_preview, run_analysis, fault,
              PreviewEvents(files, cap, doc_preview, cap_preview),
              PreviewErrors(files, cap, doc_preview, cap_preview))
\* Lines 489-737.  analyzer: 'analyzer' in st.session_state; secret:
\* ANTHROPIC_API_KEY in st.secrets; run_analysis: the button's value.
main(analyzer, secret, files, cap, doc_preview, cap_preview, run_analysis, fault) ==
    IF ~analyzer /\ ~secret
    THEN Output(run_analysis, TRUE, FALSE, FALSE, FALSE, NoRun, <<>>,
                {Message("Anthropic API key not found", "")}, FALSE)
    ELSE Page(~analyzer, files, cap, doc_preview, cap_preview, run_analysis, fault,
              PreviewEvents(files, cap, doc_preview, cap_preview),
              PreviewErrors(files, cap, doc_preview, cap_preview))

-----------------------------------------------------------------------------
(* Inputs of direct calls: grant records as extract_rsa_grant and          *)
(* extract_repurchase_info build them, entries as excel_to_structured_data *)
(* builds them.                                                            *)

MaxGrants == 2
MaxEntries == 2

SeqUpTo(S, n) == UNION {[1..k -> S] : k \in 0..n}

Alice == StrV(<<"Alice">>)
Bob == StrV(<<"Bob">>)
Charlie == StrV(<<"Charlie">>)
Jan15 == <<"January", "15,", "2024">>
Monthly48 == <<"1/48th", "monthly">>
Annual25 == <<"25%", "annual", "ly">>

\* Lines 99-108: the dict extract_rsa_grant returns.
RSAGrant(filename, stockholder, shares, price_per_share, date, vesting_schedule) ==
    [type |-> "RSA Grant", filename |-> filename, stockholder |-> stockholder,
     shares |-> shares, price_per_share |-> price_per_share, date |-> date,
     vesting_start |-> None_, vesting_schedule |-> vesting_schedule]

\* Lines 141-147: the dict extract_repurchase_info returns.
RepurchaseGrant(filename, stockholder, shares_repurchased, date) ==
    [type |-> "Repurchase", filename |-> filename, stockholder |-> stockholder,
     shares_repurchased |-> shares_repurchased, date |-> date]

GrantPool ==
    { RSAGrant("a.docx", Alice, IntV(100), FloatV(100), StrV(Jan15), StrV(Monthly48)),
      RSAGrant("b.docx", Alice, IntV(500), None_, None_, None_),
      RSAGrant("c.docx", Alice, None_, None_, None_, None_),
      RSAGrant("d.docx", Bob, IntV(102), FloatV(150), StrV(Jan15), StrV(Annual25)),
      RSAGrant("e.docx", None_, IntV(100), None_, None_, None_),
      RSAGrant("f.docx", EmptyStr, IntV(100), None_, None_, None_),
      RepurchaseGrant("g.docx", Alice, IntV(50), StrV(Jan15)),
      RepurchaseGrant("h.docx", Charlie, IntV(50), None_),
      RepurchaseGrant("i.docx", None_, None_, None_) }

Entry(security_id, stockholder, quantity, cost_basis, date, vesting) ==
    (K_SecurityID :> security_id) @@ (K_StakeholderName :> stockholder) @@
    (K_QuantityIssued :> quantity) @@ (K_CostBasis :> cost_basis) @@
    (K_BoardApprovalDate :> date) @@ (K_VestingSchedule :> vesting)

EntryPool ==
    { Entry(StrV(<<"CS-1">>), Alice, IntV(100), FloatV(10000),
            StrV(<<"Approved">> \o Jan15), StrV(Monthly48)),
      (K_SecurityID :> StrV(<<"CS-2">>)) @@ (K_StakeholderName :> Alice) @@
        (K_QuantityIssued :> IntV(101)) @@ (K_CostBasis :> FloatV(10201)) @@
        (K_VestingSchedule :> EmptyStr),
      Entry(StrV(<<"CS-3">>), Alice, IntV(100), FloatV(10000), StrV(Jan15),
            StrV(<<"Monthly", "over", "4", "years">>)),
      Entry(StrV(<<"CS-4">>), Bob, StrV(<<"100">>), FloatV(20000), StrV(<<"2024-01-15">>),
            StrV(<<"Monthly", "over", "4", "years">>)),
      Entry(StrV(<<"CS-5">>), Charlie, IntV(100), EmptyStr, EmptyStr, EmptyStr),
      Entry(StrV(<<"CS-6">>), EmptyStr, EmptyStr, EmptyStr, EmptyStr, EmptyStr),
      (K_SecurityID :> StrV(<<"CS-7">>)) @@ (K_QuantityIssued :> IntV(100)) }

NoResult == [raised |-> FALSE, discrepancies |-> <<>>, processed |-> 0]

-----------------------------------------------------------------------------
(* The Streamlit session when no script has run *)

NoFile == [name |-> "", readable |-> FALSE, rows |-> <<>>]

\* Before the first run of the script nothing is rendered.
NoOutput ==
    [Output(FALSE, FALSE, FALSE, FALSE, FALSE, NoRun, <<>>, {}, FALSE)
        EXCEPT !.ran = FALSE]

SessionIdle ==
    /\ secret_configured = TRUE
    /\ session_analyzer = FALSE
    /\ constructions = 0
    /\ board_files = <<>>
    /\ cap_table_file = NoFile
    /\ show_doc_preview = FALSE
    /\ show_cap_preview = FALSE
    /\ out = NoOutput

CallsIdle ==
    /\ call_entries = <<>>
    /\ call_grants = <<>>
    /\ last_call = [made |-> FALSE, result |-> NoResult]
    /\ earlier_call = [made |-> FALSE, result |-> NoResult]

\* Before analyze_with_llm was called.
NoLLMOutput ==
    [called |-> FALSE, api |-> ApiReply(<<>>), raised |-> FALSE, value |-> <<>>,
     requests |-> <<>>]

LLMIdle ==
    /\ llm_docs = <<>>
    /\ llm_cap_text = <<>>
    /\ llm_calls = 0
    /\ api_requests = 0
    /\ llm_out = NoLLMOutput

\* Before excel_to_structured_data was called.
NoExcelOutput == [called |-> FALSE, entries |-> <<>>, error |-> FALSE]

ExcelIdle ==
    /\ excel_file = NoFile
    /\ excel_out = NoExcelOutput

-----------------------------------------------------------------------------
(* SpecAnalysis: run_deterministic_analysis called directly, once and     *)
(* again, on inputs drawn from the pools.                                  *)

InitAnalysis ==
    /\ SessionIdle
    /\ LLMIdle
    /\ ExcelIdle
    /\ call_entries \in SeqUpTo(EntryPool, MaxEntries)
    /\ call_grants \in SeqUpTo(GrantPool, MaxGrants)
    /\ last_call = [made |-> FALSE, result |-> NoResult]
    /\ earlier_call = [made |-> FALSE, result |-> NoResult]

\* analyzer.run_deterministic_analysis(call_entries, call_grants), at most
\* twice on the same analyzer.
CallAnalysis ==
    /\ ~earlier_call.made
    /\ last_call' = [made |-> TRUE,
                     result |-> run_deterministic_analysis(call_entries, call_grants)]
    /\ earlier_call' = last_call
    /\ UNCHANGED << call_entries, call_grants, sessionVars, llmVars, excelVars >>

NextAnalysis == CallAnalysis

SpecAnalysis == InitAnalysis /\ [][NextAnalysis]_vars

-----------------------------------------------------------------------------
(* Spec: a browser session of the Streamlit script.  Every interaction     *)
(* with a widget reruns main() with the widgets' new values; the run       *)
(* button is True only in the rerun its click causes.                      *)

MaxFiles == 2

T_RsaAlice ==
    Text({"restricted stock"}, <<StrV(Jan15), None_, None_, None_>>, Alice, <<>>,
         <<100>>, <<100>>, None_, {"1/48", "month"}, <<>>)
\* An RSA whose only share number is outside 100..1000000 and whose date is
\* found by the month-name pattern alone.
T_RsaNoShares ==
    Text({"rsa"}, <<None_, None_, None_, StrV(<<"January">>)>>, Alice, <<>>,
         <<50>>, <<>>, None_, {}, <<>>)
T_Repurchase ==
    Text({"repurchase", "restricted stock"}, <<StrV(Jan15), None_, None_, None_>>,
         Charlie, <<>>, <<>>, <<>>, None_, {}, <<200000, 50>>)
T_OptionBob ==
    Text({"option"}, <<>>, Bob, <<>>, <<102>>, <<>>, None_, {"25%", "year"}, <<>>)
\* Minutes naming nobody: "Name:" followed by blanks matches the first
\* stockholder pattern with an empty name.
T_RsaEmptyName ==
    Text({"rsa"}, <<>>, None_, <<StrV(<<"Name">>), EmptyStr>>, <<100>>, <<>>,
         None_, {}, <<>>)

BoardFile(name, readable, text) == [name |-> name, readable |-> readable, text |-> text]

FilePool ==
    { BoardFile("a.docx", TRUE, T_RsaAlice),
      BoardFile("a.docx", TRUE, T_RsaNoShares),
      BoardFile("b.docx", TRUE, T_Repurchase),
      BoardFile("b.docx", TRUE, T_RsaEmptyName),
      BoardFile("c.docx", FALSE, EmptyText),
      BoardFile("d.docx", TRUE, T_OptionBob) }

HeaderRow ==
    << StrV(K_SecurityID), StrV(K_StakeholderName), StrV(K_QuantityIssued),
       StrV(K_CostBasis), StrV(K_BoardApprovalDate), StrV(K_VestingSchedule) >>

CapPool ==
    { [name |-> "cap.xlsx", readable |-> TRUE,
       rows |-> << <<StrV(<<"Cap", "Table">>), NaN, NaN, NaN, NaN, NaN>>,
                   HeaderRow,
                   <<StrV(<<"CS-1">>), Alice, IntV(100), FloatV(10000),
                     StrV(Jan15), StrV(Monthly48)>>,
                   <<StrV(<<"CS-5">>), Charlie, IntV(100), NaN, NaN, NaN>>,
                   <<NaN, StrV(<<"Total">>), IntV(200), NaN, NaN, NaN>> >>],
      [name |-> "empty.xlsx", readable |-> TRUE,
       rows |-> << <<StrV(<<"Cap", "Table">>), NaN>> >>],
      [name |-> "bad.xlsx", readable |-> FALSE, rows |-> <<>>] }

\* Where an exception other than the comparison's own may leave the try
\* block: file.read() (line 598), extract_board_grants' st.write calls
\* (line 606), the rendering calls (lines 612-708).
Faults == {"none", "read", "extract", "render"}

Init ==
    /\ secret_configured \in BOOLEAN
    /\ session_analyzer = FALSE
    /\ constructions = 0
    /\ board_files = <<>>
    /\ cap_table_file = NoFile
    /\ show_doc_preview = FALSE
    /\ show_cap_preview = FALSE
    /\ out = NoOutput
    /\ CallsIdle
    /\ LLMIdle
    /\ ExcelIdle

\* The widgets of the latest run are on the page.
WidgetsRendered == out.ran /\ ~out.stopped

\* The session after a run of the script.
AfterRun(o, files, cap, doc_preview, cap_preview) ==
    /\ out' = o
    /\ session_analyzer' = (session_analyzer \/ o.constructed)
    /\ constructions' = IF o.constructed THEN constructions + 1 ELSE constructions
    /\ board_files' = files
    /\ cap_table_file' = cap
    /\ show_doc_preview' = doc_preview
    /\ show_cap_preview' = cap_preview
    /\ UNCHANGED << secret_configured, callVars, llmVars, excelVars >>

\* One run of the script with the given widget values.
Rerun(files, cap, doc_preview, cap_preview, run_analysis, fault) ==
    AfterRun(main(session_analyzer, secret_configured, files, cap,
                  doc_preview, cap_preview, run_analysis, fault),
             files, cap, doc_preview, cap_preview)

OpenPage ==
    /\ ~out.ran
    /\ Rerun(board_files, cap_table_file, show_doc_preview, show_cap_preview,
             FALSE, "none")

RerunScript ==
    /\ out.ran
    /\ Rerun(board_files, cap_table_file, show_doc_preview, show_cap_preview,
             FALSE, "none")

ConfigureSecret ==
    /\ ~secret_configured
    /\ secret_configured' = TRUE
    /\ UNCHANGED << session_analyzer, constructions, board_files, cap_table_file,
                    show_doc_preview, show_cap_preview, out, callVars, llmVars,
                    excelVars >>

UploadBoardFile ==
    /\ WidgetsRendered
    /\ Len(board_files) < MaxFiles
    /\ \E file \in FilePool :
          Rerun(Append(board_files, file), cap_table_file, show_doc_preview,
                show_cap_preview, FALSE, "none")

RemoveAt(seq, i) == SubSeq(seq, 1, i - 1) \o SubSeq(seq, i + 1, Len(seq))

\* A checkbox that is no longer rendered loses its value.
RemoveBoardFile ==
    /\ WidgetsRendered
    /\ \E i \in 1..Len(board_files) :
          Rerun(RemoveAt(board_files, i), cap_table_file,
                show_doc_preview /\ Len(board_files) > 1,
                show_cap_preview, FALSE, "none")

UploadCapTable ==
    /\ WidgetsRendered
    /\ \E cap \in CapPool :
          /\ cap # cap_table_file
          /\ Rerun(board_files, cap, show_doc_preview, show_cap_preview,
                   FALSE, "none")

RemoveCapTable ==
    /\ WidgetsRendered
    /\ cap_table_file # NoFile
    /\ Rerun(board_files, NoFile, show_doc_preview, FALSE, FALSE, "none")

ToggleDocPreview ==
    /\ WidgetsRendered
    /\ board_files # <<>>
    /\ Rerun(board_files, cap_table_file, ~show_doc_preview, show_cap_preview,
             FALSE, "none")

ToggleCapPreview ==
    /\ WidgetsRendered
    /\ cap_table_file # NoFile
    /\ Rerun(board_files, cap_table_file, show_doc_preview, ~show_cap_preview,
             FALSE, "none")

ClickRun ==
    /\ WidgetsRendered
    /\ \E fault \in Faults :
          Rerun(board_files, cap_table_file, show_doc_preview, show_cap_preview,
                TRUE, fault)

Next ==
    \/ OpenPage
    \/ RerunScript
    \/ ConfigureSecret
    \/ UploadBoardFile
    \/ RemoveBoardFile
    \/ UploadCapTable
    \/ RemoveCapTable
    \/ ToggleDocPreview
    \/ ToggleCapPreview
    \/ ClickRun

Spec == Init /\ [][Next]_vars

-----------------------------------------------------------------------------
(* SpecLLM: analyze_with_llm called directly, the API answering or         *)
(* failing as it may.                                                      *)

MaxDocs == 2
MaxLLMCalls == 2

DocNames == {"a.docx", "b.docx"}
DocTexts == { <<"RESTRICTED STOCK AGREEMENT", "Alice">>, <<>> }

\* The dicts of at most MaxDocs documents.
LLMDocPool ==
    { d \in SeqUpTo([key : DocNames, value : DocTexts], MaxDocs) :
        \A i, j \in 1..Len(d) : d[i].key = d[j].key => i = j }

CapTexts == { <<"=== SECURITIES LEDGER: cap.xlsx ===">>, <<"Error reading Excel file">> }

ApiOutcomes ==
    { ApiReply(<<[text |-> <<"STEP 1 - DOCUMENT INVENTORY:">>]>>),
      ApiReply(<<[text |-> <<>>], [text |-> <<"more">>]>>),
      ApiReply(<<>>),
      ApiRaise(<<"Connection error.">>),
      ApiRaise(<<>>) }

InitLLM ==
    /\ SessionIdle
    /\ CallsIdle
    /\ ExcelIdle
    /\ llm_docs \in LLMDocPool
    /\ llm_cap_text \in CapTexts
    /\ llm_calls = 0
    /\ api_requests = 0
    /\ llm_out = NoLLMOutput

\* The state after a call that returned r.
Returned(r, api) ==
    /\ llm_out' = [called |-> TRUE, api |-> api, raised |-> r.raised,
                   value |-> r.value, requests |-> r.requests]
    /\ llm_calls' = llm_calls + 1
    /\ api_requests' = api_requests + Len(r.requests)
    /\ UNCHANGED << llm_docs, llm_cap_text, sessionVars, callVars, excelVars >>

\* analyzer.analyze_with_llm(llm_docs, llm_cap_text)
CallLLM ==
    /\ llm_calls < MaxLLMCalls
    /\ \E api \in ApiOutcomes :
          Returned(analyze_with_llm(llm_docs, llm_cap_text, api), api)

NextLLM == CallLLM

SpecLLM == InitLLM /\ [][NextLLM]_vars

-----------------------------------------------------------------------------
(* SpecExcel: excel_to_structured_data called directly on a sheet drawn    *)
(* from the rows below, or on a file pandas cannot read.                   *)

MaxRows == 4

\* Rows of a three-column sheet as pd.read_excel(header=None) gives them.
RowPool ==
    { <<StrV(<<"Cap", "Table">>), NaN, NaN>>,
      <<StrV(K_SecurityID), StrV(K_StakeholderName), StrV(K_QuantityIssued)>>,
      <<StrV(K_SecurityID), NaN, StrV(K_StakeholderName)>>,
      <<StrV(<<"CS-1">>), Alice, IntV(100)>>,
      <<StrV(<<"CS-2">>), NaN, NaN>>,
      <<NaN, StrV(<<"Total">>), IntV(200)>>,
      <<StrV(<<" ">>), Bob, IntV(100)>> }

SheetPool ==
    { [name |-> "cap.xlsx", readable |-> TRUE, rows |-> rows] :
        rows \in SeqUpTo(RowPool, MaxRows) }
    \cup { [name |-> "bad.xlsx", readable |-> FALSE, rows |-> <<>>] }

InitExcel ==
    /\ SessionIdle
    /\ CallsIdle
    /\ LLMIdle
    /\ excel_file \in SheetPool
    /\ excel_out = NoExcelOutput

\* analyzer.excel_to_structured_data(file_content, filename)
CallExcel ==
    /\ ~excel_out.called
    /\ excel_out' = [called |-> TRUE,
                     entries |-> excel_to_structured_data(excel_file).entries,
                     error |-> excel_to_structured_data(excel_file).error]
    /\ UNCHANGED << excel_file, sessionVars, callVars, llmVars >>

NextExcel == CallExcel

SpecExcel == InitExcel /\ [][NextExcel]_vars

-----------------------------------------------------------------------------
(* Properties of run_deterministic_analysis, under SpecAnalysis *)

EntryName(entry) == Get(entry, K_StakeholderName, EmptyStr)
EntryId(entry) == Get(entry, K_SecurityID, EmptyStr)
EntryShares(entry) == safe_int(Get(entry, K_QuantityIssued, IntV(0)))

\* The call's list holds a discrepancy of this issue for this entry.
Emitted(result, entry, issue) ==
    \E n \in 1..Len(result.discrepancies) :
        /\ result.discrepancies[n].issue = issue
        /\ result.discrepancies[n].security_id = EntryId(entry)
        /\ result.discrepancies[n].stockholder = EntryName(entry)

\* The entries whose loop body ran to its end in the call made.
Processed == 1..last_call.result.processed

CallLookup ==
    SplitGrants(call_grants, 1, [board_lookup |-> <<>>, repurchases |-> <<>>]).board_lookup

\* Some non-repurchase grant names exactly this stockholder.
NamedByGrant(name) ==
    \E i \in 1..Len(call_grants) :
        /\ call_grants[i]["type"] # "Repurchase"
        /\ Get(call_grants[i], "stockholder", None_) = name

\* Some non-repurchase grant names exactly this stockholder, and the name is
\* not empty.
NamedByGrantNonEmpty(name) ==
    \E i \in 1..Len(call_grants) :
        /\ call_grants[i]["type"] # "Repurchase"
        /\ Truthy(Get(call_grants[i], "stockholder", None_))
        /\ Get(call_grants[i], "stockholder", None_) = name

NamedOnlyByRepurchase(name) ==
    /\ \E i \in 1..Len(call_grants) :
          /\ call_grants[i]["type"] = "Repurchase"
          /\ Get(call_grants[i], "stockholder", None_) = name
    /\ ~NamedByGrant(name)

\* C1 as stated: a 'Phantom Equity Entry' discrepancy is emitted for an entry
\* if and only if no non-repurchase grant has a stockholder exactly equal to
\* the entry's 'Stakeholder Name'.  (Fails: a grant whose extracted
\* stockholder is '' equals an empty name, and the entry is still phantom.)
C1_PhantomIffNoEqualGrant ==
    last_call.made =>
        \A k \in Processed :
            Emitted(last_call.result, call_entries[k], "Phantom Equity Entry")
                <=> ~NamedByGrant(EntryName(call_entries[k]))

\* C1 amended: a 'Phantom Equity Entry' discrepancy is emitted for an entry
\* if and only if no non-repurchase grant has a non-empty stockholder exactly
\* equal to the entry's 'Stakeholder Name'; so an entry whose stockholder
\* appears only in Repurchase records, and an entry whose name is empty or
\* missing, is flagged as phantom.
C1_PhantomIffNoNonEmptyEqualGrant ==
    last_call.made =>
        \A k \in Processed :
            LET entry == call_entries[k]
                phantom == Emitted(last_call.result, entry, "Phantom Equity Entry")
            IN /\ phantom <=> ~NamedByGrantNonEmpty(EntryName(entry))
               /\ NamedOnlyByRepurchase(EntryName(entry)) => phantom
               /\ EntryName(entry) = EmptyStr => phantom

\* C1 witness: one call flags an entry whose stockholder has only a
\* Repurchase record and leaves an entry with a grant unflagged.
C1_Witness ==
    /\ last_call.made
    /\ \E k \in Processed :
          /\ NamedOnlyByRepurchase(EntryName(call_entries[k]))
          /\ Emitted(last_call.result, call_entries[k], "Phantom Equity Entry")
    /\ \E k \in Processed :
          /\ NamedByGrantNonEmpty(EntryName(call_entries[k]))
          /\ ~Emitted(last_call.result, call_entries[k], "Phantom Equity Entry")

GrantHasNoneField(grant) ==
    \E f \in {"shares", "price_per_share", "date", "vesting_schedule"} :
        f \in DOMAIN grant /\ IsNone(grant[f])

\* C2 as stated: a call in which some grant's shares, price_per_share, date
\* or vesting_schedule is None returns a discrepancy list without raising.
\* (Fails: line 251 subtracts from None.)
C2_NoneFieldsNeverRaise ==
    (last_call.made /\ \E i \in 1..Len(call_grants) : GrantHasNoneField(call_grants[i]))
        => ~last_call.result.raised

SelectedGrant(entry) ==
    FindMatchingGrant(LookupGrants(CallLookup, EntryName(entry)),
                      EntryShares(entry), 1).matching_grant

\* C10: for an entry that is not phantom, an 'Incorrect Share Quantity'
\* discrepancy is emitted if and only if the selected grant's share count is
\* set, non-zero and differs from safe_int(Quantity Issued) by more than 1;
\* a difference of 0 or 1 is never reported.
C10_ShareQuantityTolerance ==
    last_call.made =>
        \A k \in Processed :
            LET entry == call_entries[k] IN
            InLookup(CallLookup, EntryName(entry)) =>
                LET board_shares == SelectedGrant(entry)["shares"] IN
                Emitted(last_call.result, entry, "Incorrect Share Quantity")
                    <=> /\ IsInt(board_shares)
                        /\ board_shares.n # 0
                        /\ \/ board_shares.n - EntryShares(entry) > 1
                           \/ EntryShares(entry) - board_shares.n > 1

\* C10 witness: one call leaves a difference of exactly 1 unreported and
\* reports a larger one.
C10_Witness ==
    /\ last_call.made
    /\ \E k \in Processed :
          /\ InLookup(CallLookup, EntryName(call_entries[k]))
          /\ Abs(SelectedGrant(call_entries[k])["shares"].n
                 - EntryShares(call_entries[k])) = 1
          /\ ~Emitted(last_call.result, call_entries[k], "Incorrect Share Quantity")
    /\ \E k \in Processed :
          /\ InLookup(CallLookup, EntryName(call_entries[k]))
          /\ Emitted(last_call.result, call_entries[k], "Incorrect Share Quantity")

\* The cost basis of an entry, in cents.
EntryCostBasis(entry) == safe_float(Get(entry, K_CostBasis, IntV(0)))

\* C11 as stated: for an entry that is not phantom (and has a positive
\* quantity), an 'Incorrect Price Per Share' discrepancy is emitted if and
\* only if the selected grant's price_per_share is set, non-zero and differs
\* from Cost Basis / Quantity Issued by more than 0.01; a computed price
\* within one cent of the board price is never reported.  (Fails: line 275
\* compares doubles, and 1.01 - 1.0 is 0.010000000000000009.)
C11_PriceTolerance ==
    last_call.made =>
        \A k \in Processed :
            LET entry == call_entries[k] IN
            (InLookup(CallLookup, EntryName(entry)) /\ EntryShares(entry) > 0) =>
                LET board_price == SelectedGrant(entry)["price_per_share"] IN
                Emitted(last_call.result, entry, "Incorrect Price Per Share")
                    <=> /\ IsFloat(board_price)
                        /\ board_price.c # 0
                        /\ Abs(EntryCostBasis(entry)
                               - board_price.c * EntryShares(entry))
                              > PriceToleranceCents * EntryShares(entry)

\* The positions in board_grants of the non-repurchase grants of a
\* stockholder.
OwnGrants(name) ==
    { i \in 1..Len(call_grants) :
        /\ call_grants[i]["type"] # "Repurchase"
        /\ Truthy(Get(call_grants[i], "stockholder", None_))
        /\ Get(call_grants[i], "stockholder", None_) = name }

WithinOne(i, shares) ==
    /\ IsInt(call_grants[i]["shares"])
    /\ call_grants[i]["shares"].n - shares <= 1
    /\ shares - call_grants[i]["shares"].n <= 1

Least(S) == CHOOSE i \in S : \A j \in S : i <= j

\* The position of the grant C16 names for an entry of this stockholder and
\* quantity.
ExpectedGrant(name, shares) ==
    IF \E i \in OwnGrants(name) : WithinOne(i, shares)
    THEN Least({ i \in OwnGrants(name) : WithinOne(i, shares) })
    ELSE Least(OwnGrants(name))

EntryIssues ==
    {"Incorrect Share Quantity", "Incorrect Price Per Share",
     "Incorrect Board Approval Date", "Vesting Schedule Mismatch"}

\* C16: for an entry that is not phantom the selected grant is the first
\* grant of the entry's stockholder, in board_grants order, whose share count
\* is within 1 of the entry's quantity, and otherwise the stockholder's first
\* grant: every discrepancy of the entry names that grant as its source; if
\* any grant of the stockholder is within 1 share, no 'Incorrect Share
\* Quantity' is emitted; selection does not consume grants (each entry of a
\* call, also a repeated one, gets the grant its own quantity selects).
C16_GrantSelection ==
    last_call.made =>
        \A k \in Processed :
            LET entry == call_entries[k] IN
            OwnGrants(EntryName(entry)) # {} =>
                LET x == call_grants[ExpectedGrant(EntryName(entry), EntryShares(entry))]
                IN /\ SelectedGrant(entry) = x
                   /\ \A n \in 1..Len(last_call.result.discrepancies) :
                         LET d == last_call.result.discrepancies[n] IN
                         (d.security_id = EntryId(entry)
                             /\ d.stockholder = EntryName(entry)
                             /\ d.issue \in EntryIssues)
                           => d.source = x.filename
                   /\ (\E i \in OwnGrants(EntryName(entry)) :
                          WithinOne(i, EntryShares(entry)))
                        => ~Emitted(last_call.result, entry, "Incorrect Share Quantity")

\* C16 witness: an entry whose stockholder's first grant is not within 1
\* share got a discrepancy from the later grant that is, and an entry before
\* it in the same call was given the same grant.
C16_Witness ==
    /\ last_call.made
    /\ \E k \in Processed :
          LET entry == call_entries[k]
              x == ExpectedGrant(EntryName(entry), EntryShares(entry))
          IN /\ OwnGrants(EntryName(entry)) # {}
             /\ x # Least(OwnGrants(EntryName(entry)))
             /\ \E n \in 1..Len(last_call.result.discrepancies) :
                   /\ last_call.result.discrepancies[n].security_id = EntryId(entry)
                   /\ last_call.result.discrepancies[n].source = call_grants[x].filename
             /\ \E j \in 1..(k - 1) :
                   /\ EntryName(call_entries[j]) = EntryName(entry)
                   /\ ExpectedGrant(EntryName(entry), EntryShares(call_entries[j])) = x

\* The lists the call held after each of its appends: the list only grows
\* by appends, so they are the non-empty prefixes of the returned list.
ListsAfterAppends(result) ==
    { SubSeq(result.discrepancies, 1, m) : m \in 1..Len(result.discrepancies) }

\* C17: in every list run_deterministic_analysis returns, and in every list
\* it held after an append, the element at 1-based position i has number i.
C17_NumberIsPosition ==
    (last_call.made /\ ~last_call.result.raised) =>
        \A list \in ListsAfterAppends(last_call.result) \cup {last_call.result.discrepancies} :
            \A i \in 1..Len(list) : list[i].number = i

\* C17 witness: a returned list of at least three discrepancies with a
\* 'Phantom Equity Entry' and, after it, a 'Missing Repurchase Transaction'.
C17_Witness ==
    /\ last_call.made
    /\ ~last_call.result.raised
    /\ Len(last_call.result.discrepancies) >= 3
    /\ \E i, j \in 1..Len(last_call.result.discrepancies) :
          /\ i < j
          /\ last_call.result.discrepancies[i].issue = "Phantom Equity Entry"
          /\ last_call.result.discrepancies[j].issue = "Missing Repurchase Transaction"
          /\ last_call.result.discrepancies[j].number = j

IssueRank(issue) ==
    CASE issue = "Phantom Equity Entry" -> 1
      [] issue = "Incorrect Share Quantity" -> 1
      [] issue = "Incorrect Price Per Share" -> 2
      [] issue = "Incorrect Board Approval Date" -> 3
      [] issue = "Vesting Schedule Mismatch" -> 4
      [] issue = "Missing Repurchase Transaction" -> 5

OfRow(d, k) ==
    /\ d.security_id = EntryId(call_entries[k])
    /\ d.stockholder = EntryName(call_entries[k])

\* The first cap-table row after row k that the discrepancy can belong to,
\* 0 when there is none.
NextRow(d, k) ==
    IF \E r \in (k + 1)..Len(call_entries) : OfRow(d, r)
    THEN Least({ r \in (k + 1)..Len(call_entries) : OfRow(d, r) })
    ELSE 0

\* The entry discrepancies from position i on can be given to cap-table rows
\* in row order, after row k's discrepancy of rank `rank`, each row's
\* discrepancies in increasing rank.  A discrepancy stays with row k when it
\* can and otherwise goes to the first later row it fits (rows can repeat).
RECURSIVE InRowOrder(_, _, _, _)
InRowOrder(list, i, k, rank) ==
    IF i > Len(list) \/ list[i].issue = "Missing Repurchase Transaction" THEN TRUE
    ELSE IF k > 0 /\ OfRow(list[i], k) /\ IssueRank(list[i].issue) > rank
         THEN InRowOrder(list, i + 1, k, IssueRank(list[i].issue))
         ELSE /\ NextRow(list[i], k) # 0
              /\ InRowOrder(list, i + 1, NextRow(list[i], k), IssueRank(list[i].issue))

IsReportedRepurchase(grant) ==
    /\ grant["type"] = "Repurchase"
    /\ Truthy(grant.stockholder)
    /\ Truthy(grant.shares_repurchased)

IsRepurchaseDiscrepancy(d) == d.issue = "Missing Repurchase Transaction"

SourceOf(d) == d.source

FilenameOf(grant) == grant.filename

SeqMap(Op(_), seq) == [ i \in 1..Len(seq) |-> Op(seq[i]) ]

\* C18: the discrepancies of cap-table entries appear in cap-table row order;
\* within one entry in the order share quantity, price, board approval date,
\* vesting schedule; every 'Missing Repurchase Transaction' comes after all
\* entry discrepancies, and they follow the order of the Repurchase records
\* in board_grants.
C18_ListOrder ==
    (last_call.made /\ ~last_call.result.raised) =>
        LET list == last_call.result.discrepancies IN
        /\ InRowOrder(list, 1, 0, 0)
        /\ \A i, j \in 1..Len(list) :
              (i < j /\ IsRepurchaseDiscrepancy(list[i])) => IsRepurchaseDiscrepancy(list[j])
        /\ SeqMap(SourceOf, SelectSeq(list, IsRepurchaseDiscrepancy))
             = SeqMap(FilenameOf, SelectSeq(call_grants, IsReportedRepurchase))

\* C18 witness: a returned list with a row's share-quantity and price
\* discrepancies, then a discrepancy of a later, different row, then a
\* 'Missing Repurchase Transaction'.
C18_Witness ==
    /\ last_call.made
    /\ ~last_call.result.raised
    /\ Len(call_entries) = 2
    /\ EntryId(call_entries[1]) # EntryId(call_entries[2])
    /\ LET list == last_call.result.discrepancies IN
       /\ Len(list) >= 4
       /\ list[1].issue = "Incorrect Share Quantity"
       /\ list[2].issue = "Incorrect Price Per Share"
       /\ OfRow(list[1], 1) /\ OfRow(list[2], 1)
       /\ \E i \in 3..Len(list) : OfRow(list[i], 2)
       /\ IsRepurchaseDiscrepancy(list[Len(list)])

\* The cap-table rows with the same security id and stockholder as row k.
SameRows(k) == { r \in 1..Len(call_entries) : EntryId(call_entries[r]) = EntryId(call_entries[k]) /\ EntryName(call_entries[r]) = EntryName(call_entries[k]) }

\* The positions of the discrepancies of those rows with an issue of the set.
Contributed(list, k, issues) == { n \in 1..Len(list) : OfRow(list[n], k) /\ list[n].issue \in issues }

RepurchaseRecords == { i \in 1..Len(call_grants) : call_grants[i]["type"] = "Repurchase" }

\* C19: an entry flagged 'Phantom Equity Entry' contributes exactly that one
\* discrepancy and none of the four other entry issues; every other entry
\* contributes at most four; the returned list is no longer than 4 * (number
\* of entries) + (number of Repurchase records).  Rows with the same id and
\* stockholder are counted together.
C19_ContributionBound ==
    (last_call.made /\ ~last_call.result.raised) =>
        LET list == last_call.result.discrepancies IN
        /\ \A k \in 1..Len(call_entries) :
              IF Contributed(list, k, {"Phantom Equity Entry"}) # {}
              THEN /\ Cardinality(Contributed(list, k, {"Phantom Equity Entry"}))
                        = Cardinality(SameRows(k))
                   /\ Contributed(list, k, EntryIssues) = {}
              ELSE Cardinality(Contributed(list, k, EntryIssues))
                        <= 4 * Cardinality(SameRows(k))
        /\ Len(list) <= 4 * Len(call_entries) + Cardinality(RepurchaseRecords)

\* C19 witness: a returned list for a phantom row and a different row that
\* contributes all four entry issues.
C19_Witness ==
    /\ last_call.made
    /\ ~last_call.result.raised
    /\ \E k, r \in 1..Len(call_entries) :
          /\ Contributed(last_call.result.discrepancies, k, {"Phantom Equity Entry"}) # {}
          /\ Cardinality(Contributed(last_call.result.discrepancies, r, EntryIssues)) = 4

\* str(entry.get('Board Approval Date', '')) of line 227.
EntryDate(entry) == StrOf(Get(entry, K_BoardApprovalDate, EmptyStr))

HasDateField(entry) == K_BoardApprovalDate \in DOMAIN entry

\* The date of a grant is set and not empty.
HasDate(grant) == IsStr(grant.date) /\ grant.date.s # <<>>

\* C20: for an entry that is not phantom an 'Incorrect Board Approval Date'
\* discrepancy is emitted if and only if the selected grant's date is
\* non-empty and is not a substring of the string form of the entry's
\* 'Board Approval Date'; an entry without the field is reported whenever
\* the grant has a date, and a grant with no date never causes it.
C20_BoardApprovalDate ==
    last_call.made =>
        \A k \in Processed :
            LET entry == call_entries[k] IN
            OwnGrants(EntryName(entry)) # {} =>
                LET x == call_grants[ExpectedGrant(EntryName(entry), EntryShares(entry))]
                IN /\ Emitted(last_call.result, entry, "Incorrect Board Approval Date")
                        <=> (HasDate(x) /\ ~IsSubstring(x.date.s, EntryDate(entry)))
                   /\ (~HasDateField(entry) /\ HasDate(x))
                        => Emitted(last_call.result, entry, "Incorrect Board Approval Date")
                   /\ ~HasDate(x)
                        => ~Emitted(last_call.result, entry, "Incorrect Board Approval Date")

\* C20 witness: one call with an entry whose date holds the grant's date
\* inside a longer string and is not reported, and an entry of the same
\* stockholder with no date field that is reported against the same grant.
C20_Witness ==
    /\ last_call.made
    /\ \E k, r \in Processed :
          LET entry == call_entries[k]
              other == call_entries[r]
              x == call_grants[ExpectedGrant(EntryName(entry), EntryShares(entry))]
          IN /\ OwnGrants(EntryName(entry)) # {}
             /\ EntryName(other) = EntryName(entry)
             /\ HasDate(x)
             /\ x = call_grants[ExpectedGrant(EntryName(other), EntryShares(other))]
             /\ IsSubstring(x.date.s, EntryDate(entry))
             /\ x.date.s # EntryDate(entry)
             /\ ~Emitted(last_call.result, entry, "Incorrect Board Approval Date")
             /\ ~HasDateField(other)
             /\ Emitted(last_call.result, other, "Incorrect Board Approval Date")

\* str(entry.get('Vesting Schedule', '')) of line 228.
EntryVesting(entry) == StrOf(Get(entry, K_VestingSchedule, EmptyStr))

\* The vesting schedule of a grant is set and not empty.
HasVesting(grant) == IsStr(grant.vesting_schedule) /\ grant.vesting_schedule.s # <<>>

\* The word occurs in the text when case is ignored.
ContainsIgnoringCase(text, word) == \E i \in 1..Len(text) : LowerWord(text[i]) = word

\* The grant's schedule names the period and the entry's text does not.
PeriodMissing(grant, entry, word) ==
    /\ ContainsIgnoringCase(grant.vesting_schedule.s, word)
    /\ ~ContainsIgnoringCase(EntryVesting(entry), word)

\* C21: for an entry that is not phantom a 'Vesting Schedule Mismatch'
\* discrepancy is emitted if and only if the selected grant's
\* vesting_schedule is non-empty, is not a substring of the entry's vesting
\* text, and it contains 'monthly' while the entry's text, case ignored,
\* does not, or it contains 'annual' while the entry's text does not; a
\* board schedule of '1/48th monthly' is never reported against a text that
\* contains 'monthly'.
C21_VestingCheck ==
    last_call.made =>
        \A k \in Processed :
            LET entry == call_entries[k] IN
            OwnGrants(EntryName(entry)) # {} =>
                LET x == call_grants[ExpectedGrant(EntryName(entry), EntryShares(entry))]
                IN /\ Emitted(last_call.result, entry, "Vesting Schedule Mismatch")
                        <=> /\ HasVesting(x)
                            /\ ~IsSubstring(x.vesting_schedule.s, EntryVesting(entry))
                            /\ \/ PeriodMissing(x, entry, "monthly")
                               \/ PeriodMissing(x, entry, "annual")
                   /\ (x.vesting_schedule = StrV(Monthly48)
                          /\ \E i \in 1..Len(EntryVesting(entry)) :
                                EntryVesting(entry)[i] = "monthly")
                        => ~Emitted(last_call.result, entry, "Vesting Schedule Mismatch")

\* C21 witness: against one grant with a monthly schedule, an entry whose
\* text names the period in another case and does not hold the schedule is
\* not reported, and an entry of the same stockholder whose text does not
\* name the period is reported.
C21_Witness ==
    /\ last_call.made
    /\ \E k, r \in Processed :
          LET entry == call_entries[k]
              other == call_entries[r]
              x == call_grants[ExpectedGrant(EntryName(entry), EntryShares(entry))]
          IN /\ OwnGrants(EntryName(entry)) # {}
             /\ EntryName(other) = EntryName(entry)
             /\ x = call_grants[ExpectedGrant(EntryName(other), EntryShares(other))]
             /\ HasVesting(x)
             /\ ~IsSubstring(x.vesting_schedule.s, EntryVesting(entry))
             /\ ContainsIgnoringCase(EntryVesting(entry), "monthly")
             /\ ~IsSubstring(<<"monthly">>, EntryVesting(entry))
             /\ ~Emitted(last_call.result, entry, "Vesting Schedule Mismatch")
             /\ PeriodMissing(x, other, "monthly")
             /\ Emitted(last_call.result, other, "Vesting Schedule Mismatch")

\* The list holds a 'Missing Repurchase Transaction' discrepancy for this
\* Repurchase record.
RepurchaseEmitted(result, repurchase) ==
    \E n \in 1..Len(result.discrepancies) :
        /\ result.discrepancies[n].issue = "Missing Repurchase Transaction"
        /\ result.discrepancies[n].source = repurchase.filename
        /\ result.discrepancies[n].stockholder = repurchase.stockholder

\* C15 as stated: for a Repurchase record with a stockholder and a non-zero
\* shares_repurchased, whether 'Missing Repurchase Transaction' is emitted
\* depends on the cap-table entries (some cap table, with the same
\* board_grants, returns without it); a record with no stockholder or with
\* shares_repurchased None or 0 never produces one.  (Fails: lines 321-336
\* read no cap-table entry.)
C15_RepurchaseDependsOnCapTable ==
    (last_call.made /\ ~last_call.result.raised) =>
        \A i \in 1..Len(call_grants) :
            call_grants[i]["type"] = "Repurchase" =>
                IF RepurchaseReported(call_grants[i])
                THEN \E entries \in SeqUpTo(EntryPool, MaxEntries) :
                        /\ ~run_deterministic_analysis(entries, call_grants).raised
                        /\ ~RepurchaseEmitted(
                              run_deterministic_analysis(entries, call_grants),
                              call_grants[i])
                ELSE ~RepurchaseEmitted(last_call.result, call_grants[i])

-----------------------------------------------------------------------------
(* Properties of main(), under Spec *)

\* The latest rerun was a click on the run button with both uploads present.
AnalysisRun ==
    /\ out.ran
    /\ out.run_analysis
    /\ board_files # <<>>
    /\ cap_table_file # NoFile

HasEvent(ev) == \E i \in 1..Len(out.events) : out.events[i].ev = ev

HasEventFor(ev, file) == \E i \in 1..Len(out.events) : out.events[i] = Event(ev, file)

Orders(n) == { f \in [1..n -> 1..n] : \A i, j \in 1..n : f[i] = f[j] => i = j }

Reordered(files, f) == [i \in 1..Len(files) |-> files[f[i]]]

\* C4 as stated: a run on the same board files in any other upload order,
\* with the same cap table, builds the same board_docs in the same key order
\* and yields the same discrepancy list, also when two files share a name.
\* (Fails: the sort is stable and line 599 keeps the later file of a name.)
C4_UploadOrderIrrelevant ==
    (AnalysisRun /\ out.analysed) =>
        \A f \in Orders(Len(board_files)) :
            LET other == TryBody(Reordered(board_files, f), cap_table_file, "none")
            IN /\ other.board_docs = out.board_docs
               /\ other.analysed
               /\ other.discrepancies = out.discrepancies

\* C5 as stated: file reading, grant extraction and comparison execute in a
\* rerun only if the run button was clicked in it and both uploads are
\* present; a click with an upload missing shows the error and performs no
\* such step.  (Fails: the preview checkboxes read the files in any rerun.)
C5_StepsOnlyOnClick ==
    out.ran =>
        /\ out.events # <<>> => AnalysisRun
        /\ (out.run_analysis /\ ~AnalysisRun) =>
              /\ Message("Please upload both board documents and securities ledger", "")
                    \in out.errors
              /\ out.events = <<>>

AnalysisSteps ==
    {"excel_to_structured_data", "extract_board_grants", "run_deterministic_analysis"}

\* C5 amended: parsing the cap table, grant extraction and comparison
\* execute in a rerun only if the run button was clicked in it and both
\* uploads are present; any other rerun reads at most the first board file
\* and the cap table, each only while its preview checkbox is ticked; a click
\* with an upload missing shows the error and returns without any of the
\* three steps and without results.
C5_AnalysisOnlyOnClick ==
    out.ran =>
        /\ (\E ev \in AnalysisSteps : HasEvent(ev)) => AnalysisRun
        /\ ~AnalysisRun =>
              /\ \A i \in 1..Len(out.events) :
                    \/ /\ out.events[i].ev = "read_docx_content"
                       /\ show_doc_preview
                       /\ board_files # <<>>
                       /\ out.events[i].file = board_files[1].name
                    \/ /\ out.events[i].ev = "pd.read_excel"
                       /\ show_cap_preview
                       /\ out.events[i].file = cap_table_file.name
              /\ Len(out.events) <= 2
              /\ CountEvents(out.events, "read_docx_content") <= 1
        /\ (out.run_analysis /\ ~AnalysisRun) =>
              /\ Message("Please upload both board documents and securities ledger", "")
                    \in out.errors
              /\ out.returned_early
              /\ ~out.analysed
              /\ ~out.results_shown
              /\ ~out.download_button

\* C5 witness: a click with the cap table missing, while the document
\* preview is ticked: the error is shown and the first file was read.
C5_Witness ==
    /\ out.ran
    /\ out.run_analysis
    /\ board_files # <<>>
    /\ cap_table_file = NoFile
    /\ out.returned_early
    /\ HasEventFor("read_docx_content", board_files[1].name)

\* C6 as stated: every analysis run triggered by the run button makes at
\* least one and at most two calls of client.messages.create.  (Fails: main
\* never calls analyze_with_llm; a run makes none.)
C6_OneOrTwoApiCalls ==
    AnalysisRun => (1 <= out.api_requests /\ out.api_requests <= 2)

\* C7: an exception raised in a run while reading files, extracting grants,
\* comparing or rendering is caught in main: the run shows 'Error during
\* analysis', renders no download button, does not propagate the exception,
\* and the information section and the footer are still rendered.
C7_ExceptionsCaught ==
    (out.ran /\ out.exc # "") =>
        /\ AnalysisRun
        /\ Message("Error during analysis", "") \in out.errors
        /\ ~out.download_button
        /\ out.csv_rows = <<>>
        /\ ~out.propagated
        /\ out.info_section
        /\ out.footer

\* C7 witness: the comparison itself raised (TypeError at line 251) in a run.
C7_Witness ==
    /\ AnalysisRun
    /\ out.exc = "TypeError"
    /\ HasEvent("run_deterministic_analysis")
    /\ Message("Error during analysis", "") \in out.errors

\* No readable file carries this unreadable file's name.
OnlyUnreadable(name) ==
    \A j \in 1..Len(board_files) :
        board_files[j].name = name => ~board_files[j].readable

\* C8: in a run, a board document that cannot be read makes
\* read_docx_content return '' (with an error message) instead of raising;
\* the run still reads every other board document and parses the cap table,
\* and the unreadable document contributes no grant to extract_board_grants.
C8_UnreadableSkipped ==
    (AnalysisRun /\ out.exc # "IOError") =>
        \A i \in 1..Len(board_files) :
            (~board_files[i].readable /\ OnlyUnreadable(board_files[i].name)) =>
                /\ Message("Error reading", board_files[i].name) \in out.errors
                /\ \E k \in 1..Len(out.board_docs) :
                      out.board_docs[k] = [key |-> board_files[i].name,
                                           value |-> EmptyText]
                /\ \A j \in 1..Len(board_files) :
                      /\ HasEventFor("read_docx_content", board_files[j].name)
                      /\ \E k \in 1..Len(out.board_docs) :
                            out.board_docs[k].key = board_files[j].name
                /\ HasEventFor("excel_to_structured_data", cap_table_file.name)
                /\ out.exc # "StreamlitAPIException" => HasEvent("extract_board_grants")
                /\ \A g \in 1..Len(out.board_grants) :
                      out.board_grants[g].filename # board_files[i].name

\* C8 witness: a run over an unreadable and a readable document was analysed
\* with a grant from the readable one.
C8_Witness ==
    /\ AnalysisRun
    /\ out.analysed
    /\ \E i \in 1..Len(board_files) : ~board_files[i].readable
    /\ out.board_grants # <<>>
    /\ cap_table_file.readable

\* C12: in a run that no exception ends, the CSV report is offered for
\* download if and only if the run's discrepancy list is non-empty; it then
\* holds one row per discrepancy, in list order, whose 'Discrepancy #' is
\* the discrepancy's number; a run with no discrepancy shows the
\* 'No discrepancies found' message and offers no download.
C12_ReportIffDiscrepancies ==
    (AnalysisRun /\ out.analysed /\ out.exc = "") =>
        /\ out.download_button <=> out.discrepancies # <<>>
        /\ out.no_discrepancies_shown <=> out.discrepancies = <<>>
        /\ ~out.download_button => out.csv_rows = <<>>
        /\ out.download_button =>
              /\ Len(out.csv_rows) = Len(out.discrepancies)
              /\ \A i \in 1..Len(out.discrepancies) :
                    /\ out.csv_rows[i].discrepancy_no = out.discrepancies[i].number
                    /\ out.csv_rows[i].issue = out.discrepancies[i].issue
                    /\ out.csv_rows[i].stockholder = out.discrepancies[i].stockholder
                    /\ out.csv_rows[i].security_id = out.discrepancies[i].security_id

\* C12 witness: a run offers a report of at least two rows of different
\* issues.
C12_Witness ==
    /\ AnalysisRun
    /\ out.exc = ""
    /\ out.download_button
    /\ Len(out.csv_rows) >= 2
    /\ out.csv_rows[1].issue # out.csv_rows[Len(out.csv_rows)].issue

\* What holds of the analyzer in every state of a session.
AnalyzerOnce ==
    /\ constructions <= 1
    /\ session_analyzer <=> constructions = 1
    /\ (out.ran /\ out.stopped) =>
          /\ ~session_analyzer
          /\ Message("Anthropic API key not found", "") \in out.errors
          /\ board_files = <<>>
          /\ cap_table_file = NoFile
          /\ out.events = <<>>
          /\ ~out.analysed
          /\ ~out.results_shown
          /\ ~out.info_section

\* What holds of every step of a session.
AnalyzerStep ==
    /\ constructions' # constructions =>
          /\ ~session_analyzer
          /\ secret_configured
          /\ session_analyzer'
          /\ constructions' = constructions + 1
    /\ (out.ran /\ out.stopped /\ secret_configured /\ out' # out) =>
          /\ out'.constructed
          /\ ~out'.stopped
          /\ session_analyzer'

\* C13: over any sequence of reruns of one session the analyzer is
\* constructed at most once, and only in a rerun that finds no analyzer in
\* the session; a rerun that finds neither analyzer nor secret shows the
\* error and stops before any upload widget or analysis is rendered and
\* stores no analyzer, so that the next rerun, once the secret is there,
\* constructs it.
C13_AnalyzerConstructedOnce == []AnalyzerOnce /\ [][AnalyzerStep]_vars

\* C13 witness: a rerun of a session that holds its analyzer did not
\* construct another, with files uploaded.
C13_Witness ==
    /\ out.ran
    /\ session_analyzer
    /\ constructions = 1
    /\ ~out.constructed
    /\ board_files # <<>>

-----------------------------------------------------------------------------
(* Properties of analyze_with_llm, under SpecLLM *)

\* C9: each call of analyze_with_llm invokes client.messages.create exactly
\* once, with the prompt built from its arguments; if that invocation
\* raises, the call returns 'Error analyzing documents: ' followed by the
\* exception's message, does not raise and does not invoke the API again.
C9_NoRetries ==
    llm_out.called =>
        /\ Len(llm_out.requests) = 1
        /\ llm_out.requests[1].messages[1].content
              = create_analysis_prompt(llm_docs, llm_cap_text)
        /\ api_requests = llm_calls
        /\ llm_out.api.raises =>
              /\ ~llm_out.raised
              /\ llm_out.value = <<"Error analyzing documents: ">> \o llm_out.api.message

\* C9 witness: the API raised in the second of two calls.
C9_Witness ==
    /\ llm_out.called
    /\ llm_out.api.raises
    /\ llm_out.api.message # <<>>
    /\ llm_calls = 2
    /\ api_requests = 2

-----------------------------------------------------------------------------
(* Properties of excel_to_structured_data, under SpecExcel *)

\* A cell of the row holds the text.
RowHas(row, text) == \E j \in 1..Len(row) : IsStr(row[j]) /\ IsSubstring(text, row[j].s)

ContainsBoth(row) == RowHas(row, K_SecurityID) /\ RowHas(row, K_StakeholderName)

\* The position of the first row that contains both names, 0 without one.
FirstHeader ==
    IF \E i \in 1..Len(excel_file.rows) : ContainsBoth(excel_file.rows[i])
    THEN Least({ i \in 1..Len(excel_file.rows) : ContainsBoth(excel_file.rows[i]) })
    ELSE 0

RowsAfterHeader == SubSeq(excel_file.rows, FirstHeader + 1, Len(excel_file.rows))

FirstCellNonEmpty(row) == ~IsNaN(row[1]) /\ StrOf(row[1]) # <<>>

FirstCellNotBlank(row) ==
    /\ ~IsNaN(row[1])
    /\ \E i \in 1..Len(StrOf(row[1])) : StrOf(row[1])[i] # " "

\* The entry the claim describes for a row under a header: one key for
\* each header cell that is not empty, a missing value replaced by ''.
ExpectedEntry(headers, row) ==
    [ key \in { StrOf(headers[j]) : j \in { c \in 1..Len(headers) : ~IsNaN(headers[c]) } } |->
        LET j == CHOOSE c \in 1..Len(headers) : ~IsNaN(headers[c]) /\ StrOf(headers[c]) = key
        IN IF IsNaN(row[j]) THEN EmptyStr ELSE row[j] ]

ExpectedEntries(kept) ==
    IF FirstHeader = 0 THEN <<>>
    ELSE [ i \in 1..Len(kept) |-> ExpectedEntry(excel_file.rows[FirstHeader], kept[i]) ]

\* C22 as stated: [] when no row contains both 'Security ID' and
\* 'Stakeholder Name'; otherwise the first such row is the header and there
\* is, in sheet order, exactly one entry for each later row whose first cell
\* is non-empty, keyed only by the non-empty header cells, every missing
\* value replaced by the empty string.
C22_EntryPerNonEmptyFirstCell ==
    excel_out.called =>
        excel_out.entries = ExpectedEntries(SelectSeq(RowsAfterHeader, FirstCellNonEmpty))

\* C22 amended: as above, with one entry for each later row whose first cell
\* is non-empty after stripping whitespace; a first cell of blanks only
\* produces none.
C22_EntryPerNonBlankFirstCell ==
    excel_out.called =>
        excel_out.entries = ExpectedEntries(SelectSeq(RowsAfterHeader, FirstCellNotBlank))

\* C22 witness: a sheet with a row before the header, a header with an empty
\* cell, and two later rows, one with a first cell of blanks; the one entry
\* returned lacks the key of the empty header cell and has '' for a
\* missing value.
C22_Witness ==
    /\ excel_out.called
    /\ Len(excel_file.rows) = 4
    /\ FirstHeader = 2
    /\ \E c \in 1..Len(excel_file.rows[2]) : IsNaN(excel_file.rows[2][c])
    /\ \E i \in 3..4 : ~IsNaN(excel_file.rows[i][1]) /\ ~FirstCellNotBlank(excel_file.rows[i])
    /\ Len(excel_out.entries) = 1
    /\ Cardinality(DOMAIN excel_out.entries[1]) = 2
    /\ \E key \in DOMAIN excel_out.entries[1] : excel_out.entries[1][key] = EmptyStr

====
